---- MODULE Spec2Model ----
(***************************************************************************)
(* Scatter-and-reconstruct animation engine of the jigsaw front end.      *)
(*                                                                         *)
(* Two configurations of the engine are modelled, selected by `config`:   *)
(*   "app" - the App component (service-supplied placement data, run       *)
(*           tokens in animationIdRef, throttled commits);                 *)
(*   "ra"  - the ReconstructionAnimation component (grid-derived targets). *)
(*                                                                         *)
(* React semantics kept by the model:                                      *)
(*   - a handler reads the state of the render that created it; a          *)
(*     continuation after `await`, a timer callback or a frame callback    *)
(*     keeps the closure of the render in which the handler was invoked;   *)
(*   - refs (useRef) are read live;                                        *)
(*   - the state updates of one handler are committed together and the     *)
(*     effects they trigger run before the next handler.                   *)
(*                                                                         *)
(* Browser semantics kept by the model:                                    *)
(*   - every animation callback of one display frame receives the time     *)
(*     stamp latched for that frame; a callback requested while callbacks  *)
(*     run is delivered in the next frame;                                 *)
(*   - handlers, timers and responses run between the callbacks of two     *)
(*     frames, before or after the time stamp of the coming frame was      *)
(*     latched, so the clock a handler reads can be ahead of the time      *)
(*     stamp its first callback receives;                                  *)
(*   - the clock is read through differences only: the model counts it     *)
(*     from the last frame before the newest run started, and lets it      *)
(*     pass only while a callback is requested.                            *)
(*                                                                         *)
(* Numbers: times are milliseconds.  progress is held in units of 1/K and  *)
(* eased values and current positions in units of 1/K^3, which is exact    *)
(* for every time the model produces.                                      *)
(***************************************************************************)
EXTENDS Integers, Sequences, FiniteSets, TLC

VARIABLES
    config,                  \* "app" or "ra"
    \* ---- the display ----
    frameTime,               \* time stamp of the last display frame
    rafCallbacks,            \* runs with a callback requested for the next frame
    rafQueue,                \* runs whose callback is still to run in the current frame
    runs,                    \* the closures of the animate callbacks, in order of start
    \* ---- App state (part_002:498-524) ----
    uploadedFile, pieces, shuffledPieces, shattered,
    rebuiltUrl, loading, error,
    placementData, isAnimating, scatteredPieces, animationPhase,
    animationRef, animationIdRef, currentPlacementDataRef,
    shatterReqs,             \* shatter requests in flight
    rebuildReqs,             \* rebuild requests in flight, each with its closure
    startTimers,             \* pending 100 ms timers of handleRebuild, each with its closure
    \* ---- ReconstructionAnimation state (part_000:25-38); isAnimating is shared ----
    props,                   \* pieces, pieceCoordinates, pieceDimensions, gridSize
    positions, animationProgress,
    resetTimers,             \* pending 100 ms timers of resetAnimation, each with its closure
    effectPending,           \* the [isAnimating, pieces] effect is due after the last commit
    \* ---- App state of the zip upload (part_002:499, 624-660) ----
    uploadedZipFile,
    zipReqs,                 \* load_zip_pieces requests in flight
    \* ---- calls of the pure functions ----
    scatterLoop,             \* the locals of the scatter loop (part_000:43-70)
    geometry,                \* a source size with a point of it, and what the transform gave
    shuffleCall,             \* the random choices of the last shuffleArray call
    \* ---- the piece browser and the requests of the order (part_002:520, 662-675) ----
    currentPieceIndex,
    shuffleReqs,             \* server shuffles in flight
    chosenPieceCount,        \* the pieceCount state of frontend/src/App.tsx:243
    countReqs                \* its shatter requests in flight, each with the count of its closure

fileVars == <<uploadedFile, pieces, shuffledPieces, shattered>>
statusVars == <<rebuiltUrl, loading, error>>
animVars == <<placementData, isAnimating, scatteredPieces, animationPhase,
              animationRef, currentPlacementDataRef>>
pendingVars == <<shatterReqs, rebuildReqs, startTimers>>
appVars == <<fileVars, statusVars, animVars, animationIdRef, pendingVars>>
raVars == <<props, positions, animationProgress, resetTimers, effectPending>>
browserVars == <<frameTime, rafCallbacks, rafQueue>>
zipVars == <<uploadedZipFile, zipReqs>>
calcVars == <<scatterLoop, geometry, shuffleCall>>
browseVars == <<currentPieceIndex, shuffleReqs, chosenPieceCount, countReqs>>
vars == <<config, browserVars, runs, appVars, raVars, zipVars, calcVars, browseVars>>

\* null of a string-valued state, and null of an object-valued state
Null == "null"
NoData == [null |-> TRUE]

Min(a, b) == IF a <= b THEN a ELSE b

Remove(seq, i) == [j \in 1..(Len(seq) - 1) |-> IF j < i THEN seq[j] ELSE seq[j + 1]]

----------------------------------------------------------------------------
(* Program constants *)
animationDuration == 2000
pieceCount == 50
margin == 100
containerWidth == 800
containerHeight == 600
pieceSizeScattered == 150
duration == 2000

(* Bounds of the model *)
MaxRuns == 2           \* animation runs started in one behaviour
MaxInflight == 1       \* requests in flight and timers pending at one time
FramesPerRun == 2      \* display frames per animationDuration

\* progress is held in units of 1/K; Skew is the time of one such unit, and the
\* distance between the time stamp latched for a frame and the clock read by a
\* handler that runs after the latch
K == 100
Skew == animationDuration \div K
\* time between two display frames, a whole number of units
FrameMs == (K \div FramesPerRun) * Skew
Unit == K * K * K

----------------------------------------------------------------------------
(* Data the services return *)

\* placement data of a rebuild response: canvas size, piece size, one entry per piece
PD1 == [canvas_size |-> [width |-> 800, height |-> 600],
        piece_size |-> [width |-> 100, height |-> 100],
        pieces |-> <<[piece_index |-> 0, final_position |-> <<100, 0>>]>>]
PD2 == [canvas_size |-> [width |-> 1000, height |-> 800],
        piece_size |-> [width |-> 50, height |-> 50],
        pieces |-> <<[piece_index |-> 0, final_position |-> <<0, 0>>],
                     [piece_index |-> 1, final_position |-> <<50, 0>>]>>]
PlacementSet == {PD1, PD2}

\* the outcomes of the /rebuild fetch: a body with `rebuilt` (with or without
\* placement_data), a body without it, a failed fetch
RebuildResponses ==
    {[kind |-> "rebuilt", placement_data |-> pd] : pd \in PlacementSet \cup {NoData}}
        \cup {[kind |-> "error", placement_data |-> NoData],
              [kind |-> "throw", placement_data |-> NoData]}

\* A piece reference is a string, a sequence of characters; a character is a
\* number, Slash is '/'.  The references of the service are the files of one
\* folder: '/' folder '/' name (part_002:1531 `/static/pieces/${piece.filename}`).
Slash == 0
Folder == 99
PieceUrl(name) == <<Slash, Folder, Slash, name>>

\* part_002:697  url.split('/'): the segments between the slashes
RECURSIVE SplitFrom(_, _, _)
SplitFrom(url, k, segments) ==
    IF k > Len(url) THEN segments
    ELSE IF url[k] = Slash THEN SplitFrom(url, k + 1, Append(segments, <<>>))
    ELSE SplitFrom(url, k + 1, [segments EXCEPT ![Len(segments)] = Append(@, url[k])])
Split(url) == SplitFrom(url, 1, <<<<>>>>)

\* the first segment instead of the last
Shift(segments) == segments[1]

\* part_002:697  .pop(): the last segment
Pop(segments) == segments[Len(segments)]

\* part_002:697  url.split('/').pop() || ''
Identifier(url) == LET last == Pop(Split(url)) IN IF last = <<>> THEN <<>> ELSE last

\* part_002:697  the order of a rebuild request
ToServiceOrder(list) == [k \in 1..Len(list) |-> Identifier(list[k])]

\* piece lists of a /shatter response, by length
PieceList(n) == [i \in 1..n |-> PieceUrl(i)]
ShatterResponses == {"full", "short", "error", "throw"}

\* Math.random() takes the values r/2, r \in {0, 1}; the two draws <<rx, ry>> of one piece
RandomDraws == {<<0, 1>>, <<1, 0>>}

\* the draws of n pieces in a row: the two draws alternate, starting with either
RandomSequences(n) ==
    {[i \in 1..n |-> IF i % 2 = 1 THEN d ELSE <<d[2], d[1]>>] : d \in RandomDraws}

----------------------------------------------------------------------------
(* Pure functions of App *)

\* Progress without the upper clamp: C8 fails with it
ProgressUnclamped(elapsed) == elapsed \div Skew

\* part_002:796-797  progress = Math.min(elapsed / animationDuration, 1), in units of 1/K
Progress(elapsed) == Min(elapsed \div Skew, K)

\* part_002:800  1 - Math.pow(1 - progress, 3), in units of 1/K^3
EaseOutCubic(progress) == Unit - (K - progress) * (K - progress) * (K - progress)

\* part_002:807-808  start + (0 - start) * easeOutCubic, in units of 1/K^3
MoveToCentre(start, ease) == start * Unit + (0 - start) * ease

\* part_002:820  Math.floor(progress * 120) % 3 === 0
CommitsThisFrame(progress) == ((progress * 120) \div K) % 3 = 0

\* part_002:754-755  Math.random() * (size + margin * 2) - margin
ScatterCoordinate(r, size) == (r * (size + margin * 2)) \div 2 - margin

\* part_002:749-764  one scattered piece per entry of placementData.pieces;
\* rnd[i] = <<rx, ry>> are the two random draws of piece i
GenerateScatteredPositions(pd, rnd) ==
    [i \in 1..Len(pd.pieces) |->
        LET x == ScatterCoordinate(rnd[i][1], pd.canvas_size.width)
            y == ScatterCoordinate(rnd[i][2], pd.canvas_size.height)
        IN  [piece_index |-> pd.pieces[i].piece_index,
             final_position |-> pd.pieces[i].final_position,
             scattered_position |-> <<x, y>>,
             current_position |-> <<x * Unit, y * Unit>>]]

\* part_002:802-814  the pieces of one frame
UpdatedPieces(scattered, ease) ==
    [i \in 1..Len(scattered) |->
        [scattered[i] EXCEPT !.current_position =
            <<MoveToCentre(scattered[i].scattered_position[1], ease),
              MoveToCentre(scattered[i].scattered_position[2], ease)>>]]

\* a start time kept from a run that began animationDuration ago: C10 fails with it
StalePerformanceNow == {frameTime - animationDuration}

\* the clock read by a handler: some time before, or shortly after, the time
\* stamp of the coming frame was latched
PerformanceNow == {frameTime + 5 * Skew, frameTime + FrameMs + Skew}

----------------------------------------------------------------------------
(* Effects of App, run after the commit of a handler's updates *)

\* part_002:879-884  the cleanup of the [isAnimating] effect runs when isAnimating changed
\* part_002:887-896  the [placementData] effect runs when placementData changed
RefsCleared(ia, pd) ==
    \/ ia # isAnimating
    \/ pd # placementData /\ pd = NoData
AnimationCleared(pd) == pd # placementData /\ pd = NoData

\* commit the animation state a handler computed, then run the two effects
CommitAnimationState(pd, ia, sp, ph, ref, cref) ==
    /\ placementData' = pd
    /\ isAnimating' = IF AnimationCleared(pd) THEN FALSE ELSE ia
    /\ scatteredPieces' = IF AnimationCleared(pd) THEN <<>> ELSE sp
    /\ animationPhase' = IF AnimationCleared(pd) THEN "scattered" ELSE ph
    /\ animationRef' = IF RefsCleared(ia, pd) THEN <<>> ELSE ref
    /\ currentPlacementDataRef' = IF RefsCleared(ia, pd) THEN NoData ELSE cref

----------------------------------------------------------------------------
(* Animation runs.  A run is the closure of one animate callback.  Of App it    *)
(* holds id (currentAnimationId), scattered and startTime; of                    *)
(* ReconstructionAnimation positions, finalPositions and startTime.  The fields  *)
(* pd, progress, elapsed, done and cancelled record what the run was started     *)
(* with and what it did.                                                         *)

Pending == rafCallbacks \cup rafQueue

\* a run is in flight while its callback is requested and it has not completed
InFlight(r) == r \in Pending /\ ~runs[r].done

\* a handler that dismisses the animation: the runs in flight are marked
MarkCancelled ==
    runs' = [r \in DOMAIN runs |->
                IF InFlight(r) THEN [runs[r] EXCEPT !.cancelled = TRUE] ELSE runs[r]]

\* a superseded run of App: its callback reads currentAnimationId only
Retired(run) == [id |-> run.id, scattered |-> <<>>, startTime |-> 0, pd |-> NoData,
                 progress |-> <<>>, elapsed |-> <<>>,
                 done |-> run.done, cancelled |-> run.cancelled]

----------------------------------------------------------------------------
(* Handlers of App *)

Idle == config = "app" /\ rafQueue = {}

\* part_002:528-555
HandleImageUpload ==
    /\ Idle
    /\ uploadedFile' = TRUE
    /\ CommitAnimationState(NoData, FALSE, <<>>, "scattered", <<>>, NoData)
    /\ shattered' = FALSE
    /\ shuffledPieces' = <<>>
    /\ error' = Null
    /\ rebuiltUrl' = Null
    /\ uploadedZipFile' = FALSE
    /\ currentPieceIndex' = 0
    /\ MarkCancelled
    /\ UNCHANGED <<config, shuffleReqs, chosenPieceCount, countReqs, zipReqs, calcVars,
                   browserVars, pieces, loading, animationIdRef,
                   pendingVars, raVars>>

\* part_002:566-583
ResetState ==
    /\ shattered' = FALSE
    /\ shuffledPieces' = <<>>
    /\ error' = Null
    /\ loading' = FALSE
    /\ rebuiltUrl' = Null
    /\ currentPieceIndex' = 0
    /\ CommitAnimationState(NoData, FALSE, <<>>, "scattered", animationRef, NoData)

\* part_002:722-727  the button is rendered with the piece browser (part_002:1146)
HandleReset ==
    /\ Idle
    /\ shattered /\ shuffledPieces # <<>>
    /\ ResetState
    /\ uploadedFile' = FALSE
    /\ uploadedZipFile' = FALSE
    /\ MarkCancelled
    /\ UNCHANGED <<config, shuffleReqs, chosenPieceCount, countReqs, zipReqs, calcVars,
                   browserVars, pieces, animationIdRef,
                   pendingVars, raVars>>

InflightCount == shatterReqs + Len(rebuildReqs) + Len(startTimers)

\* part_002:585-599  handleShatter up to the fetch; the button is disabled while loading
HandleShatter ==
    /\ Idle
    /\ ~loading
    /\ IF ~uploadedFile
       THEN /\ error' = "Please upload an image first"
            /\ UNCHANGED <<loading, rebuiltUrl, shatterReqs>>
       ELSE /\ InflightCount < MaxInflight
            /\ loading' = TRUE
            /\ error' = Null
            /\ rebuiltUrl' = Null
            /\ shatterReqs' = shatterReqs + 1
    /\ UNCHANGED <<config, browseVars, zipVars, calcVars, browserVars, runs, fileVars,
                   animVars, animationIdRef,
                   rebuildReqs, startTimers, raVars>>

\* part_002:604-621  handleShatter after the fetch
ShatterResponse(resp) ==
    /\ Idle
    /\ shatterReqs > 0
    /\ shatterReqs' = shatterReqs - 1
    /\ CASE resp = "full" ->
              /\ pieces' = PieceList(pieceCount)
              /\ shuffledPieces' = PieceList(pieceCount)
              /\ shattered' = TRUE
              /\ UNCHANGED error
         [] resp = "short" ->
              /\ error' = "Expected 50 pieces"
              /\ UNCHANGED <<pieces, shuffledPieces, shattered>>
         [] resp = "error" ->
              /\ error' = "Failed to shatter image"
              /\ UNCHANGED <<pieces, shuffledPieces, shattered>>
         [] resp = "throw" ->
              /\ error' = "Failed to connect to backend"
              /\ UNCHANGED <<pieces, shuffledPieces, shattered>>
    /\ loading' = FALSE
    /\ UNCHANGED <<config, browseVars, zipVars, calcVars, browserVars, runs, uploadedFile,
                   rebuiltUrl, animVars,
                   animationIdRef, rebuildReqs, startTimers, raVars>>

\* part_002:677-698  handleRebuild up to the fetch.  The closure keeps the
\* placementData of the render in which the button was clicked: it is what
\* startAnimation reads when the timer of this call fires.
HandleRebuild ==
    /\ Idle
    /\ shattered /\ shuffledPieces # <<>>
    /\ ~loading
    /\ InflightCount < MaxInflight
    /\ loading' = TRUE
    /\ error' = Null
    /\ rebuiltUrl' = Null
    /\ CommitAnimationState(NoData, FALSE, <<>>, "scattered", <<>>, NoData)
    /\ rebuildReqs' = Append(rebuildReqs, [placementData |-> placementData,
                                           order |-> ToServiceOrder(shuffledPieces)])
    /\ MarkCancelled
    /\ UNCHANGED <<config, browseVars, zipVars, calcVars, browserVars, fileVars,
                   animationIdRef, shatterReqs,
                   startTimers, raVars>>

\* part_002:699-719  handleRebuild after the fetch
RebuildResponse(i, resp) ==
    /\ Idle
    /\ i \in DOMAIN rebuildReqs
    /\ rebuildReqs' = Remove(rebuildReqs, i)
    /\ CASE resp.kind = "rebuilt" ->
              /\ rebuiltUrl' = "rebuilt"
              /\ CommitAnimationState(resp.placement_data, isAnimating, scatteredPieces,
                                      animationPhase, animationRef, currentPlacementDataRef)
              /\ startTimers' = Append(startTimers,
                                       [placementData |-> rebuildReqs[i].placementData])
              /\ UNCHANGED error
         [] resp.kind = "error" ->
              /\ error' = "Failed to rebuild image"
              /\ UNCHANGED <<rebuiltUrl, animVars, startTimers>>
         [] resp.kind = "throw" ->
              /\ error' = "Failed to connect to backend"
              /\ UNCHANGED <<rebuiltUrl, animVars, startTimers>>
    /\ loading' = FALSE
    /\ UNCHANGED <<config, browseVars, zipVars, calcVars, browserVars, runs, fileVars,
                   animationIdRef,
                   shatterReqs, raVars>>

\* a token that is not advanced: C3 fails with it
SameAnimationId(id) == id

\* part_002:771  animationIdRef.current += 1
NextAnimationId(id) == id + 1

\* a frame request that is lost: C6 fails with it
DropAnimationFrame(r) == UNCHANGED rafCallbacks

\* part_002:824-825 and 833, part_000:120-121 and 128  requestAnimationFrame(animate)
RequestAnimationFrame(r) == rafCallbacks' = rafCallbacks \cup {r}

\* part_002:769-833  startAnimation after its guard, reading the placementData `pd`
\* of its closure.  The clock is counted from the last frame before the start
\* from here on.
StartRun(pd) ==
    /\ Len(runs) < MaxRuns
    /\ animationIdRef' = NextAnimationId(animationIdRef)
    /\ \E rnd \in RandomSequences(Len(pd.pieces)), startTime \in PerformanceNow :
         LET scattered == GenerateScatteredPositions(pd, rnd) IN
         /\ CommitAnimationState(placementData, TRUE, scattered, "moving", <<>>, pd)
         /\ runs' = Append([r \in DOMAIN runs |-> Retired(runs[r])],
                           [id |-> animationIdRef', scattered |-> scattered,
                            startTime |-> startTime - frameTime, pd |-> pd,
                            progress |-> <<>>, elapsed |-> <<>>,
                            done |-> FALSE, cancelled |-> FALSE])
    /\ frameTime' = 0
    /\ RequestAnimationFrame(Len(runs) + 1)
    /\ UNCHANGED rafQueue

\* startAnimation with its guard after the token was advanced: C9 fails with it
StartAnimationLateGuard(pd) ==
    IF pd = NoData
    THEN /\ animationIdRef' = NextAnimationId(animationIdRef)
         /\ UNCHANGED <<animVars, browserVars, runs>>
    ELSE StartRun(pd)

\* part_002:766-767  startAnimation: if (!placementData) return
StartAnimation(pd) ==
    IF pd = NoData
    THEN UNCHANGED <<animVars, animationIdRef, browserVars, runs>>
    ELSE StartRun(pd)

\* part_002:709-711  the timer of handleRebuild fires
DelayedStart(i) ==
    /\ Idle
    /\ i \in DOMAIN startTimers
    /\ startTimers' = Remove(startTimers, i)
    /\ StartAnimation(startTimers[i].placementData)
    /\ UNCHANGED <<config, browseVars, zipVars, calcVars, fileVars, statusVars, shatterReqs,
                   rebuildReqs,
                   raVars>>

\* part_002:1469-1473  the Replay Animation button: rendered with the rebuilt
\* image when placementData is set, disabled while isAnimating
ReplayAnimation ==
    /\ Idle
    /\ rebuiltUrl # Null /\ placementData # NoData /\ ~isAnimating
    /\ StartAnimation(placementData)
    /\ UNCHANGED <<config, browseVars, zipVars, calcVars, fileVars, statusVars, pendingVars,
                   raVars>>

\* part_002:836-848  the overlay is rendered while isAnimating with pieces (part_002:1495)
CloseAnimation ==
    /\ Idle
    /\ isAnimating /\ scatteredPieces # <<>>
    /\ CommitAnimationState(placementData, FALSE, <<>>, "scattered", <<>>, NoData)
    /\ MarkCancelled
    /\ UNCHANGED <<config, browseVars, zipVars, calcVars, browserVars, fileVars, statusVars,
                   animationIdRef,
                   pendingVars, raVars>>

\* part_002:796-830  the body of animate for a run that is still valid
AnimateValid(r) ==
    LET elapsed == frameTime - runs[r].startTime
        progress == Progress(elapsed)
        updatedPieces == UpdatedPieces(runs[r].scattered, EaseOutCubic(progress))
    IN  /\ animationRef' = updatedPieces
        /\ IF progress < K
           THEN /\ scatteredPieces' = IF CommitsThisFrame(progress)
                                      THEN updatedPieces ELSE scatteredPieces
                /\ RequestAnimationFrame(r)
                /\ UNCHANGED animationPhase
           ELSE /\ animationPhase' = "complete"
                /\ scatteredPieces' = updatedPieces
                /\ UNCHANGED rafCallbacks
        /\ runs' = [runs EXCEPT ![r].progress = <<progress>>,
                                ![r].elapsed = <<elapsed>>,
                                ![r].done = ~(progress < K)]

\* animate without the token check: C2 fails with it
AnimateUnchecked(r) == AnimateValid(r)

\* part_002:790-831  one call of the animate callback of run r
Animate(r) ==
    IF runs[r].id # animationIdRef
    THEN UNCHANGED <<runs, scatteredPieces, animationPhase, animationRef, rafCallbacks>>
    ELSE AnimateValid(r)

\* a display frame delivers the callback of run r
AnimationFrame(r) ==
    /\ config = "app"
    /\ r \in rafQueue
    /\ rafQueue' = rafQueue \ {r}
    /\ Animate(r)
    /\ UNCHANGED <<config, browseVars, zipVars, calcVars, frameTime, fileVars, statusVars,
                   placementData,
                   isAnimating,
                   currentPlacementDataRef, animationIdRef, pendingVars, raVars>>

----------------------------------------------------------------------------
(* ReconstructionAnimation (part_000) *)

\* the props of the component: a 1 x 1 grid that fits the container, a 2 x 2 grid
\* that is scaled down (its second piece shown), and a component without coordinates
RA1 == [pieces |-> <<"p0">>,
        pieceCoordinates |-> <<[piece_index |-> 0, top |-> 0, left |-> 0]>>,
        pieceDimensions |-> [height |-> 300, width |-> 400], gridSize |-> 1]
RA2 == [pieces |-> <<"p1">>,
        pieceCoordinates |-> <<[piece_index |-> 1, top |-> 0, left |-> 800]>>,
        pieceDimensions |-> [height |-> 600, width |-> 800], gridSize |-> 2]
RA0 == [pieces |-> <<"p0">>,
        pieceCoordinates |-> <<>>,
        pieceDimensions |-> [height |-> 300, width |-> 400], gridSize |-> 1]
RAProps == {RA0, RA1, RA2}

\* part_000:52-55 and 137-140  one random position, in whole pixels
RandomPosition(draw) ==
    [top |-> (draw[1] * (containerHeight - pieceSizeScattered)) \div 2,
     left |-> (draw[2] * (containerWidth - pieceSizeScattered)) \div 2]

\* part_000:43-72  the lists the scatter loop can return for n pieces: a sample
\* that overlaps an earlier one is kept when every attempt of the piece overlapped
ScatteredPositions(n) == [1..n -> {RandomPosition(d) : d \in RandomDraws}]

\* part_000:84-86  Math.min(scaleX, scaleY, 1) as a fraction <<numerator, denominator>>
Scale(p) ==
    LET w == p.gridSize * p.pieceDimensions.width
        h == p.gridSize * p.pieceDimensions.height
    IN  IF w <= containerWidth /\ h <= containerHeight THEN <<1, 1>>
        ELSE IF containerWidth * h <= containerHeight * w THEN <<containerWidth, w>>
        ELSE <<containerHeight, h>>

\* part_000:88-93  coord * scale + (container - gridSize * dimension * scale) / 2
FinalPositions(p) ==
    LET sc == Scale(p)
        w == p.gridSize * p.pieceDimensions.width
        h == p.gridSize * p.pieceDimensions.height
    IN  [i \in 1..Len(p.pieceCoordinates) |->
            [top |-> (2 * p.pieceCoordinates[i].top * sc[1]
                        + containerHeight * sc[2] - h * sc[1]) \div (2 * sc[2]),
             left |-> (2 * p.pieceCoordinates[i].left * sc[1]
                        + containerWidth * sc[2] - w * sc[1]) \div (2 * sc[2])]]

\* part_000:101  Math.min(elapsed / duration, 1), in units of 1/K
ProgressRA(elapsed) == Min(elapsed \div Skew, duration \div Skew)

\* part_000:110-111  startPos + (endPos - startPos) * easeProgress, in whole pixels
Lerp(startPos, endPos, ease) == startPos + ((endPos - startPos) * ease) \div Unit

\* part_000:106-115
NewPositions(startPositions, finalPositions, ease) ==
    [i \in 1..Len(startPositions) |->
        IF i <= Len(finalPositions)
        THEN [top |-> Lerp(startPositions[i].top, finalPositions[i].top, ease),
              left |-> Lerp(startPositions[i].left, finalPositions[i].left, ease)]
        ELSE startPositions[i]]

\* Date.now() read by a handler between two frames, and by a callback of the
\* current frame: the wall clock read later is not earlier
DateNow == {frameTime + 5 * Skew}
DateNowInCallback == frameTime + 2 * Skew

IdleRA == config = "ra" /\ rafQueue = {} /\ ~effectPending

\* a run of ReconstructionAnimation that completed: its callback is never called again
RetiredRA(run) == [id |-> 0, positions |-> <<>>, finalPositions |-> <<>>, startTime |-> 0,
                   progress |-> run.progress, elapsed |-> run.elapsed,
                   done |-> run.done, cancelled |-> run.cancelled]

\* the closures of the runs, with the clock counted from the last frame from here on
Rebased(run) == IF run.done THEN run ELSE [run EXCEPT !.startTime = @ - frameTime]

\* part_000:76-129  the button is rendered while not animating (part_000:221)
StartAnimationRA ==
    /\ IdleRA
    /\ ~isAnimating
    /\ IF Len(props.pieceCoordinates) = 0
       THEN UNCHANGED <<isAnimating, animationProgress, runs, frameTime, rafCallbacks>>
       ELSE /\ Len(runs) < MaxRuns
            /\ isAnimating' = TRUE
            /\ animationProgress' = 0
            /\ \E startTime \in DateNow :
                  runs' = Append([r \in DOMAIN runs |-> Rebased(runs[r])],
                                 [id |-> 0, positions |-> positions,
                                  finalPositions |-> FinalPositions(props),
                                  startTime |-> startTime - frameTime,
                                  progress |-> <<>>, elapsed |-> <<>>,
                                  done |-> FALSE, cancelled |-> FALSE])
            /\ frameTime' = 0
            /\ RequestAnimationFrame(Len(runs) + 1)
    /\ UNCHANGED <<config, browseVars, zipVars, calcVars, rafQueue, fileVars, statusVars,
                   placementData,
                   scatteredPieces, animationPhase, animationRef, currentPlacementDataRef,
                   animationIdRef, pendingVars,
                   props, positions, resetTimers, effectPending>>

\* part_000:99-126  one call of the animate callback of run r.  setIsAnimating(false)
\* makes the [isAnimating, pieces] effect due when it changes isAnimating.
AnimateRA(r) ==
    LET elapsed == DateNowInCallback - runs[r].startTime
        progress == ProgressRA(elapsed)
        easeProgress == EaseOutCubic(progress)
    IN  /\ positions' = NewPositions(runs[r].positions, runs[r].finalPositions, easeProgress)
        /\ animationProgress' = easeProgress
        /\ IF progress < K
           THEN /\ RequestAnimationFrame(r)
                /\ UNCHANGED <<isAnimating, effectPending>>
           ELSE /\ isAnimating' = FALSE
                /\ effectPending' = isAnimating
                /\ UNCHANGED rafCallbacks
        /\ runs' = [runs EXCEPT ![r] =
                        IF progress < K
                        THEN [@ EXCEPT !.progress = <<progress>>, !.elapsed = <<elapsed>>]
                        ELSE RetiredRA([@ EXCEPT !.progress = <<progress>>,
                                                 !.elapsed = <<elapsed>>, !.done = TRUE])]

AnimationFrameRA(r) ==
    /\ config = "ra"
    /\ ~effectPending
    /\ r \in rafQueue
    /\ rafQueue' = rafQueue \ {r}
    /\ AnimateRA(r)
    /\ UNCHANGED <<config, browseVars, zipVars, calcVars, frameTime, fileVars, statusVars,
                   placementData,
                   scatteredPieces, animationPhase, animationRef, currentPlacementDataRef,
                   animationIdRef, pendingVars, props, resetTimers>>

\* part_000:40-74  the effect of [isAnimating, pieces], run after the commit that
\* changed isAnimating
ScatterEffect ==
    /\ config = "ra"
    /\ effectPending
    /\ effectPending' = FALSE
    /\ IF ~isAnimating
       THEN positions' \in ScatteredPositions(Len(props.pieces))
       ELSE UNCHANGED positions
    /\ UNCHANGED <<config, browseVars, zipVars, calcVars, browserVars, runs, appVars, props,
                   animationProgress, resetTimers>>

\* part_000:131-136  resetAnimation up to the timer
ResetAnimation ==
    /\ IdleRA
    /\ Len(resetTimers) < MaxInflight
    /\ isAnimating' = FALSE
    /\ animationProgress' = 0
    /\ positions' = <<>>
    /\ resetTimers' = Append(resetTimers, [length |-> Len(positions)])
    /\ effectPending' = isAnimating
    /\ MarkCancelled
    /\ UNCHANGED <<config, browseVars, zipVars, calcVars, browserVars, fileVars, statusVars,
                   placementData,
                   scatteredPieces, animationPhase, animationRef, currentPlacementDataRef,
                   animationIdRef, pendingVars, props>>

\* part_000:136-141  the timer of resetAnimation fires; positions.map(() => ...)
\* reads the length of the positions of its closure only
ResetTimer(i) ==
    /\ IdleRA
    /\ i \in DOMAIN resetTimers
    /\ resetTimers' = Remove(resetTimers, i)
    /\ positions' \in ScatteredPositions(resetTimers[i].length)
    /\ UNCHANGED <<config, browseVars, zipVars, calcVars, browserVars, runs, appVars, props,
                   animationProgress,
                   effectPending>>

----------------------------------------------------------------------------
(* The display *)

\* the next display frame: the callbacks requested so far are due, with its
\* time stamp.  Time is read by callbacks only, so it passes only with them.
BeginFrame ==
    /\ rafQueue = {}
    /\ rafCallbacks # {}
    /\ ~effectPending
    /\ frameTime' = frameTime + FrameMs
    /\ rafQueue' = rafCallbacks
    /\ rafCallbacks' = {}
    /\ UNCHANGED <<config, browseVars, zipVars, calcVars, runs, appVars, raVars>>

----------------------------------------------------------------------------
(* App after an image was uploaded and shattered into pieceCount pieces     *)
(* (HandleImageUpload, HandleShatter, ShatterResponse("full")), or           *)
(* ReconstructionAnimation after its first render and scatter effect.       *)
Init ==
    /\ config \in {"app", "ra"}
    /\ frameTime = 0
    /\ rafCallbacks = {}
    /\ rafQueue = {}
    /\ runs = <<>>
    /\ uploadedFile = (config = "app")
    /\ pieces = IF config = "app" THEN PieceList(pieceCount) ELSE <<>>
    /\ shuffledPieces = pieces
    /\ shattered = (config = "app")
    /\ rebuiltUrl = Null
    /\ loading = FALSE
    /\ error = Null
    /\ placementData = NoData
    /\ isAnimating = FALSE
    /\ scatteredPieces = <<>>
    /\ animationPhase = "scattered"
    /\ animationRef = <<>>
    /\ animationIdRef = 0
    /\ currentPlacementDataRef = NoData
    /\ shatterReqs = 0
    /\ rebuildReqs = <<>>
    /\ startTimers = <<>>
    /\ props \in IF config = "ra" THEN RAProps ELSE {NoData}
    /\ positions \in IF config = "ra" THEN ScatteredPositions(Len(props.pieces)) ELSE {<<>>}
    /\ animationProgress = 0
    /\ resetTimers = <<>>
    /\ effectPending = FALSE
    /\ uploadedZipFile = FALSE
    /\ zipReqs = 0
    /\ currentPieceIndex = 0
    /\ shuffleReqs = 0
    /\ chosenPieceCount = pieceCount
    /\ countReqs = <<>>
    /\ scatterLoop = NoData
    /\ geometry = NoData
    /\ shuffleCall = NoData

Next ==
    \/ HandleImageUpload
    \/ HandleRebuild
    \/ \E i \in 1..MaxInflight, resp \in RebuildResponses : RebuildResponse(i, resp)
    \/ \E i \in 1..MaxInflight : DelayedStart(i)
    \/ ReplayAnimation
    \/ CloseAnimation
    \/ HandleReset
    \/ \E r \in 1..MaxRuns : AnimationFrame(r)
    \/ StartAnimationRA
    \/ \E r \in 1..MaxRuns : AnimationFrameRA(r)
    \/ ScatterEffect
    \/ ResetAnimation
    \/ \E i \in 1..MaxInflight : ResetTimer(i)
    \/ BeginFrame

Spec == Init /\ [][Next]_vars

FairSpec ==
    /\ Spec
    /\ WF_vars(BeginFrame)
    /\ WF_vars(ScatterEffect)
    /\ \A r \in 1..MaxRuns : WF_vars(AnimationFrame(r)) /\ WF_vars(AnimationFrameRA(r))

----------------------------------------------------------------------------
(* Properties *)

\* this step is the call of the frame callback of run r
Delivered(r) == r \in rafQueue /\ r \notin rafQueue'

\* this step is a call of startAnimation that started a run
Started == Len(runs') = Len(runs) + 1

\* C1: a frame callback of a run that was cancelled before it completed (by
\* closeAnimation, handleReset, an upload, a rebuild, or resetAnimation) leaves
\* the committed positions, the working buffer, the phase and isAnimating as
\* they are.
C1_CancelledRunWritesNothing ==
    [][\A r \in DOMAIN runs :
          (Delivered(r) /\ runs[r].cancelled)
              => UNCHANGED <<scatteredPieces, positions, animationRef,
                             animationPhase, isAnimating>>]_vars

\* C2: in App, once a later run was started, a frame callback of an earlier run
\* commits no positions, leaves the working buffer and the phase alone and
\* requests no further frame.
C2_SupersededRunWritesNothing ==
    [][\A r \in DOMAIN runs :
          (config = "app" /\ Delivered(r) /\ r < Len(runs))
              => UNCHANGED <<scatteredPieces, animationRef, animationPhase,
                             isAnimating, rafCallbacks>>]_vars

\* a run that was superseded while in flight and not dismissed has had its
\* stale callback delivered
C2_Witness ==
    /\ config = "app"
    /\ \E r \in DOMAIN runs :
          r < Len(runs) /\ ~runs[r].done /\ ~runs[r].cancelled /\ r \notin Pending

\* C3: in App, animationIdRef never decreases, the runs carry strictly
\* increasing tokens in order of start, none above animationIdRef, and at most
\* one run with a callback still requested carries the current token.
C3_OneAuthoritativeRun ==
    /\ [](config = "app" =>
            /\ \A q, r \in DOMAIN runs : q < r => runs[q].id < runs[r].id
            /\ \A r \in DOMAIN runs : runs[r].id <= animationIdRef
            /\ Cardinality({r \in Pending : runs[r].id = animationIdRef}) <= 1)
    /\ [][animationIdRef' >= animationIdRef]_vars

\* two runs of App have a callback requested at the same time
C3_Witness == config = "app" /\ Len(runs) = 2 /\ Pending = {1, 2}

\* C4: when the timer of a successful rebuild fires while placement data is
\* stored, a run is started, isAnimating becomes true, and the run animates the
\* stored placement data.
C4_DelayedStartAnimatesResponse ==
    [][(config = "app" /\ Len(startTimers') < Len(startTimers) /\ placementData # NoData)
          => /\ Started
             /\ isAnimating'
             /\ runs'[Len(runs')].pd = placementData]_vars

\* C5: the frame of a run that computes progress 1 commits, and commits every
\* piece at its target: the overlay origin for each piece of the placement data
\* in App, the final position of each coordinate in ReconstructionAnimation.
C5_FinalFrameCommitsTargets ==
    [][\A r \in DOMAIN runs :
          (Delivered(r) /\ ~runs[r].done /\ runs'[r].done)
              => IF config = "app"
                 THEN /\ Len(scatteredPieces') = Len(runs[r].pd.pieces)
                      /\ \A i \in DOMAIN scatteredPieces' :
                            scatteredPieces'[i].current_position = <<0, 0>>
                 ELSE positions' = runs[r].finalPositions]_vars

\* C6: with frames delivered fairly, a run that is not superseded requests a
\* further frame on every frame with progress < 1, reaches progress 1, marks the
\* completion (phase 'complete' in App, isAnimating false in
\* ReconstructionAnimation) and has no frame requested afterwards.
C6_RunCompletes ==
    /\ \A r \in 1..MaxRuns :
          (r \in DOMAIN runs)
              ~> (r \in DOMAIN runs /\ (runs[r].done \/ (config = "app" /\ r < Len(runs))))
    /\ [][\A r \in DOMAIN runs :
            (Delivered(r) /\ ~(config = "app" /\ r < Len(runs)))
                => IF runs'[r].done
                   THEN /\ runs'[r].progress = <<K>>
                        /\ r \notin rafCallbacks'
                        /\ IF config = "app" THEN animationPhase' = "complete"
                                             ELSE ~isAnimating'
                   ELSE r \in rafCallbacks']_vars
    /\ [](\A r \in DOMAIN runs : runs[r].done => r \notin Pending)

\* a run completed: phase 'complete', no frame requested
C6_Witness ==
    /\ config = "app"
    /\ animationPhase = "complete"
    /\ \E r \in DOMAIN runs : runs[r].done /\ runs[r].progress = <<K>> /\ Pending = {}

\* C7: the progress computed on any frame lies in [0, 1]
C7_ProgressInUnitInterval ==
    \A r \in DOMAIN runs :
        runs[r].progress # <<>> => 0 <= runs[r].progress[1] /\ runs[r].progress[1] <= K

\* C8: the progress of a run never decreases from one of its frames to the
\* next, and a frame with elapsed >= 2000 ms computes progress 1
C8_ProgressMonotone ==
    /\ [][\A r \in DOMAIN runs :
            (Delivered(r) /\ runs[r].progress # <<>> /\ runs'[r].progress # <<>>)
                => runs'[r].progress[1] >= runs[r].progress[1]]_vars
    /\ [](\A r \in DOMAIN runs :
            (runs[r].elapsed # <<>> /\ runs[r].elapsed[1] >= animationDuration)
                => runs[r].progress = <<K>>)

\* a run of App had a frame with more than animationDuration elapsed
C8_Witness ==
    /\ config = "app"
    /\ \E r \in DOMAIN runs :
          runs[r].elapsed # <<>> /\ runs[r].elapsed[1] > animationDuration

\* C9: startAnimation without placement data changes nothing.  In App the only
\* such call is the timer of a rebuild that was requested while placementData
\* was null; in ReconstructionAnimation, with empty pieceCoordinates no call of
\* startAnimation ever starts a run.
C9_StartWithoutDataIsNoOp ==
    /\ [][(config = "app" /\ Len(startTimers') < Len(startTimers)
              /\ \A i \in DOMAIN startTimers : startTimers[i].placementData = NoData)
            => UNCHANGED <<animationIdRef, animVars, browserVars, runs, error>>]_vars
    /\ []((config = "ra" /\ Len(props.pieceCoordinates) = 0)
            => /\ runs = <<>>
               /\ ~isAnimating
               /\ animationProgress = 0
               /\ Pending = {})

\* the timer of the first successful rebuild has fired and started nothing
C9_Witness ==
    /\ config = "app"
    /\ rebuiltUrl # Null /\ placementData # NoData
    /\ rebuildReqs = <<>> /\ startTimers = <<>>
    /\ runs = <<>> /\ animationIdRef = 0

\* C10: in App, closing the overlay after the phase became 'complete' keeps
\* placementData; a start by the Replay Animation button runs over the stored
\* placementData with a larger token and a start time read at the click; and the
\* first frame of a run computes progress < 1.
C10_ReplayIsFresh ==
    [][config = "app" =>
        /\ (animationPhase = "complete" /\ isAnimating /\ ~isAnimating'
                /\ UNCHANGED <<fileVars, statusVars, pendingVars>>)
              => placementData' = placementData
        /\ (Started /\ UNCHANGED startTimers)
              => /\ placementData' = placementData
                 /\ runs'[Len(runs')].pd = placementData
                 /\ \A r \in DOMAIN runs : runs'[Len(runs')].id > runs[r].id
                 /\ runs'[Len(runs')].startTime >= frameTime'
        /\ \A r \in DOMAIN runs :
              (Delivered(r) /\ runs[r].progress = <<>> /\ runs'[r].progress # <<>>)
                  => runs'[r].progress[1] < K]_vars

\* a run completed, and a later run over the stored placement data has had its
\* first frame
C10_Witness ==
    /\ config = "app"
    /\ Len(runs) = 2
    /\ runs[1].done /\ ~runs[1].cancelled
    /\ runs[2].pd = placementData
    /\ runs[2].progress # <<>> /\ runs[2].progress[1] < K
    /\ startTimers = <<>> /\ rebuildReqs = <<>>

-----------------------------------------------------------------------------
(* The scatter placement generators, statement by statement                 *)

\* part_000:44 and ScatteredPieces.tsx:34
maxAttempts == 1000
\* part_000:38 and ScatteredPieces.tsx:28
padding == 5
\* ScatteredPieces.tsx:15 and 27
containerHeightSP == 400
pieceSizeScatteredSP == 300

\* the largest pieces.length of a mounted component
MaxPieces == 3

\* Math.random() in tenths; a draw is <<the random of top, the random of left>>
Tenths == 10
ScatterDraws == {<<0, 0>>, <<5, 5>>, <<8, 8>>}

\* the container and the piece size of the two components with the loop
Components ==
    [ra |-> [containerWidth |-> containerWidth, containerHeight |-> containerHeight,
             pieceSizeScattered |-> pieceSizeScattered],
     sp |-> [containerWidth |-> containerWidth, containerHeight |-> containerHeightSP,
             pieceSizeScattered |-> pieceSizeScatteredSP]]

Abs(x) == IF x < 0 THEN -x ELSE x

\* part_000:52-55  position = { top: random * (H - size), left: random * (W - size) }
SamplePosition(draw, c) ==
    [top |-> (draw[1] * (c.containerHeight - c.pieceSizeScattered)) \div Tenths,
     left |-> (draw[2] * (c.containerWidth - c.pieceSizeScattered)) \div Tenths]

\* the test with || in place of &&: close on one axis is enough to reject
TooCloseOnEitherAxis(pos, position, c) ==
    \/ Abs(pos.left - position.left) < c.pieceSizeScattered + padding
    \/ Abs(pos.top - position.top) < c.pieceSizeScattered + padding

\* part_000:59-62  the test of one earlier position against the sample
TooClose(pos, position, c) ==
    /\ Abs(pos.left - position.left) < c.pieceSizeScattered + padding
    /\ Abs(pos.top - position.top) < c.pieceSizeScattered + padding

\* part_000:57-63  scatteredPositions.some(...)
Overlaps(scatteredPositions, position, c) ==
    \E k \in 1..Len(scatteredPositions) : TooClose(scatteredPositions[k], position, c)

\* the loop repeats one sample too many
LoopAgainInclusive(overlaps, attempts) == overlaps /\ attempts <= maxAttempts

\* part_000:67  while (overlaps && attempts < maxAttempts)
LoopAgain(overlaps, attempts) == overlaps /\ attempts < maxAttempts

\* the sample is dropped
PushNothing(scatteredPositions, position) == scatteredPositions

\* part_000:69  scatteredPositions.push(position)
Push(scatteredPositions, position) == Append(scatteredPositions, position)

\* the mounted component before its effect runs: part_000:43-44
LoopStart(component, n) ==
    [component |-> component, pieces |-> n, pc |-> "for", i |-> 0, attempts |-> 0,
     position |-> NoData, overlaps |-> FALSE, scatteredPositions |-> <<>>]

Looping == config = "scatter" /\ scatterLoop.component \in {"ra", "sp"}

\* part_000:46-49  for (let i = 0; i < pieces.length; i++) { let attempts = 0; ...
ForPiece ==
    /\ Looping
    /\ scatterLoop.pc = "for"
    /\ scatterLoop.i < scatterLoop.pieces
    /\ scatterLoop' = [scatterLoop EXCEPT !.pc = "do", !.attempts = 0,
                                          !.position = NoData, !.overlaps = FALSE]
    /\ UNCHANGED <<config, browseVars, browserVars, runs, appVars, raVars, zipVars, geometry,
                   shuffleCall>>

\* part_000:51-65  one pass of the do body: the sample, the test, attempts++
DoSample(draw) ==
    /\ Looping
    /\ scatterLoop.pc = "do"
    /\ LET position == SamplePosition(draw, Components[scatterLoop.component])
       IN  scatterLoop' =
             [scatterLoop EXCEPT
                !.pc = "while",
                !.position = position,
                !.overlaps = Overlaps(scatterLoop.scatteredPositions, position,
                                      Components[scatterLoop.component]),
                !.attempts = scatterLoop.attempts + 1]
    /\ UNCHANGED <<config, browseVars, browserVars, runs, appVars, raVars, zipVars, geometry,
                   shuffleCall>>

\* part_000:67-70  the while test, then the push and i++
WhileTest ==
    /\ Looping
    /\ scatterLoop.pc = "while"
    /\ IF LoopAgain(scatterLoop.overlaps, scatterLoop.attempts)
       THEN scatterLoop' = [scatterLoop EXCEPT !.pc = "do"]
       ELSE scatterLoop' =
              [scatterLoop EXCEPT
                 !.pc = "for",
                 !.scatteredPositions = Push(scatterLoop.scatteredPositions,
                                             scatterLoop.position),
                 !.i = scatterLoop.i + 1]
    /\ UNCHANGED <<config, browseVars, browserVars, runs, appVars, raVars, zipVars, geometry,
                   shuffleCall>>

\* part_000:72  setPositions(scatteredPositions)
SetPositions ==
    /\ Looping
    /\ scatterLoop.pc = "for"
    /\ scatterLoop.i >= scatterLoop.pieces
    /\ positions' = scatterLoop.scatteredPositions
    /\ scatterLoop' = [scatterLoop EXCEPT !.pc = "done"]
    /\ UNCHANGED <<config, browseVars, browserVars, runs, appVars, props, animationProgress,
                   resetTimers,
                   effectPending, zipVars, geometry, shuffleCall>>

\* placement data of no piece
PD0 == [PD1 EXCEPT !.pieces = <<>>]

\* part_002:776-777  scattered = generateScatteredPositions(placementData);
\* setScatteredPieces(scattered)
ScatterPlacement ==
    /\ config = "scatter"
    /\ scatterLoop.component = "app"
    /\ scatterLoop.pc = "for"
    /\ \E rnd \in RandomSequences(Len(placementData.pieces)) :
          scatteredPieces' = GenerateScatteredPositions(placementData, rnd)
    /\ scatterLoop' = [scatterLoop EXCEPT !.pc = "done"]
    /\ UNCHANGED <<config, browseVars, browserVars, runs, fileVars, statusVars, placementData,
                   isAnimating,
                   animationPhase, animationRef, animationIdRef, currentPlacementDataRef,
                   pendingVars, raVars, zipVars, geometry, shuffleCall>>

\* the state of App at mount (part_002:498-524) with nothing pending
AppAtMount ==
    /\ uploadedFile = FALSE
    /\ pieces = <<>>
    /\ shuffledPieces = <<>>
    /\ shattered = FALSE
    /\ rebuiltUrl = Null
    /\ loading = FALSE
    /\ error = Null
    /\ isAnimating = FALSE
    /\ scatteredPieces = <<>>
    /\ animationPhase = "scattered"
    /\ animationRef = <<>>
    /\ animationIdRef = 0
    /\ currentPlacementDataRef = NoData
    /\ shatterReqs = 0
    /\ rebuildReqs = <<>>
    /\ startTimers = <<>>
    /\ uploadedZipFile = FALSE
    /\ zipReqs = 0
    /\ currentPieceIndex = 0
    /\ shuffleReqs = 0
    /\ chosenPieceCount = pieceCount
    /\ countReqs = <<>>

\* no frame, no run, no ReconstructionAnimation
NothingRuns ==
    /\ frameTime = 0
    /\ rafCallbacks = {}
    /\ rafQueue = {}
    /\ runs = <<>>
    /\ props = NoData
    /\ animationProgress = 0
    /\ resetTimers = <<>>
    /\ effectPending = FALSE

ScatterInit ==
    /\ config = "scatter"
    /\ AppAtMount
    /\ NothingRuns
    /\ positions = <<>>
    /\ scatterLoop \in {LoopStart(c, n) : c \in {"ra", "sp", "app"}, n \in 0..MaxPieces}
    /\ placementData \in IF scatterLoop.component = "app"
                         THEN {pd \in PlacementSet \cup {PD0} :
                                  Len(pd.pieces) = scatterLoop.pieces}
                         ELSE {NoData}
    /\ geometry = NoData
    /\ shuffleCall = NoData

ScatterNext ==
    \/ ForPiece
    \/ \E draw \in ScatterDraws : DoSample(draw)
    \/ WhileTest
    \/ SetPositions
    \/ ScatterPlacement

ScatterSpec == ScatterInit /\ [][ScatterNext]_vars

\* the effect is one synchronous block: once entered it runs to its end
ScatterFairSpec ==
    ScatterSpec /\ WF_vars(ForPiece) /\ WF_vars(\E draw \in ScatterDraws : DoSample(draw))
                /\ WF_vars(WhileTest) /\ WF_vars(SetPositions) /\ WF_vars(ScatterPlacement)

\* C11: every scatter generator returns exactly as many positions as there are
\* pieces, the k-th for the k-th piece: the loop has pushed one position per
\* finished piece, what it hands to setPositions has pieces.length entries, and
\* generateScatteredPositions keeps the length and the piece of every entry.
C11_OnePositionPerPiece ==
    config = "scatter" =>
        /\ scatterLoop.component \in {"ra", "sp"} =>
              /\ Len(scatterLoop.scatteredPositions) = scatterLoop.i
              /\ scatterLoop.i <= scatterLoop.pieces
              /\ scatterLoop.pc = "done" =>
                    /\ positions = scatterLoop.scatteredPositions
                    /\ Len(positions) = scatterLoop.pieces
        /\ (scatterLoop.component = "app" /\ scatterLoop.pc = "done") =>
              /\ Len(scatteredPieces) = Len(placementData.pieces)
              /\ \A k \in 1..Len(scatteredPieces) :
                    scatteredPieces[k].piece_index = placementData.pieces[k].piece_index

\* the loop of ScatteredPieces returned three positions for three pieces, two of
\* which overlap
C11_Witness ==
    /\ config = "scatter"
    /\ scatterLoop.component = "sp"
    /\ scatterLoop.pc = "done"
    /\ scatterLoop.pieces = 3
    /\ Len(positions) = 3
    /\ \E a, b \in 1..3 : a # b /\ TooClose(positions[a], positions[b], Components.sp)

\* C12: the generator terminates for every input and every random sequence, and
\* each piece takes at least one and at most maxAttempts samples: the effect
\* reaches its end, attempts never exceeds maxAttempts, and at every push
\* attempts is between 1 and maxAttempts.
C12_LoopTerminates ==
    /\ <>(scatterLoop.pc = "done")
    /\ [](scatterLoop.attempts \in 0..maxAttempts)
    /\ [][Len(scatterLoop'.scatteredPositions) > Len(scatterLoop.scatteredPositions)
            => scatterLoop.attempts \in 1..maxAttempts]_vars

\* the third piece of ScatteredPieces, which fits nowhere, has had its last
\* sample, and the loop went on to its end
C12_Witness ==
    /\ config = "scatter"
    /\ scatterLoop.component = "sp"
    /\ scatterLoop.pieces = 3
    /\ scatterLoop.i = 3
    /\ scatterLoop.attempts = maxAttempts
    /\ scatterLoop.overlaps
    /\ scatterLoop.pc = "done"

\* the positions are pairwise separated by size + padding on some axis
Separated(list, c) ==
    \A a, b \in 1..Len(list) : a # b => ~TooClose(list[a], list[b], c)

\* some layout of n pieces, drawn from the samples, is pairwise separated
Feasible(n, c) ==
    \E layout \in [1..n -> {SamplePosition(d, c) : d \in ScatterDraws}] : Separated(layout, c)

\* C13 (as claimed): whenever the region admits a layout of all the pieces that
\* is pairwise separated by size + padding on some axis, the positions the loop
\* returns have no pairwise overlap.
C13_FeasibleMeansNoOverlap ==
    (Looping /\ scatterLoop.pc = "done"
        /\ Feasible(scatterLoop.pieces, Components[scatterLoop.component]))
        => Separated(positions, Components[scatterLoop.component])

-----------------------------------------------------------------------------
(* The coordinate transforms.  A number is a fraction <<numerator,          *)
(* denominator>>; <<1, 0>> is Infinity, <<0, 0>> is NaN and <<>> is no      *)
(* number at all.                                                           *)

\* part_002:1538-1541 and 1545-1546, 1557-1558: the literals of the overlay
overlayWidth == 800
overlayHeight == 600
overlayCentreX == 400
overlayCentreY == 300
defaultPieceSize == 100

FracEq(a, b) == a[1] * b[2] = b[1] * a[2]
FracLeq(a, b) == a[1] * b[2] <= b[1] * a[2]

\* part_002:1538  canvas_size?.width || 800: zero and undefined give the default
OrDefault(reported, default) == IF reported = 0 THEN default ELSE reported

\* the smaller of the two ratios, without the cap at 1
OverlayScaleUncapped(canvasWidth, canvasHeight) ==
    IF overlayWidth * canvasHeight <= overlayHeight * canvasWidth
    THEN <<overlayWidth, canvasWidth>>
    ELSE <<overlayHeight, canvasHeight>>

\* part_002:1540-1542  Math.min(800 / canvasWidth, 600 / canvasHeight, 1)
OverlayScale(canvasWidth, canvasHeight) ==
    IF canvasWidth <= overlayWidth /\ canvasHeight <= overlayHeight THEN <<1, 1>>
    ELSE IF overlayWidth * canvasHeight <= overlayHeight * canvasWidth
         THEN <<overlayWidth, canvasWidth>>
         ELSE <<overlayHeight, canvasHeight>>

\* part_002:1538-1561  the style of one piece of the overlay at current_position
\* <<x, y>>; corner is where translate(-50%, -50%) puts the top left of the image
OverlayStyle(pd, x, y) ==
    LET canvasWidth == OrDefault(pd.canvas_size.width, overlayWidth)
        canvasHeight == OrDefault(pd.canvas_size.height, overlayHeight)
        scale == OverlayScale(canvasWidth, canvasHeight)
        pieceWidth == OrDefault(pd.piece_size.width, defaultPieceSize)
        pieceHeight == OrDefault(pd.piece_size.height, defaultPieceSize)
    IN  [scale |-> scale,
         left |-> <<x * scale[1] + overlayCentreX * scale[2], scale[2]>>,
         top |-> <<y * scale[1] + overlayCentreY * scale[2], scale[2]>>,
         width |-> <<pieceWidth * scale[1], scale[2]>>,
         height |-> <<pieceHeight * scale[1], scale[2]>>,
         cornerLeft |-> <<2 * x * scale[1] + 2 * overlayCentreX * scale[2]
                            - pieceWidth * scale[1], 2 * scale[2]>>,
         cornerTop |-> <<2 * y * scale[1] + 2 * overlayCentreY * scale[2]
                            - pieceHeight * scale[1], 2 * scale[2]>>]

\* ScatteredPieces.tsx:66-67  (pos / originalImageSize) * container
RebuiltCoordinate(pos, size, container) ==
    IF size = 0 THEN (IF pos = 0 THEN <<0, 0>> ELSE <<1, 0>>)
    ELSE <<pos * container, size>>

\* the sources a transform is given, and the points of them
SourceWidths == {0, 400, 800, 1000, 1600}
SourceHeights == {0, 300, 600, 800, 1200}
SourcePoints == {[left |-> 0, top |-> 0], [left |-> 100, top |-> 60],
                 [left |-> 400, top |-> 300]}

\* props of ReconstructionAnimation with a 2 x 2 grid over the source and one
\* coordinate; placement data with the source as its canvas
PropsOf(g) ==
    [pieces |-> <<"p0">>,
     pieceCoordinates |-> <<[piece_index |-> 0, top |-> g.point.top, left |-> g.point.left]>>,
     pieceDimensions |-> [height |-> g.src.height \div 2, width |-> g.src.width \div 2],
     gridSize |-> 2]
PlacementOf(g) ==
    [canvas_size |-> g.src, piece_size |-> [width |-> 100, height |-> 100],
     pieces |-> <<[piece_index |-> 0, final_position |-> <<g.point.left, g.point.top>>]>>]

Transforming(component) ==
    config = "transform" /\ geometry.component = component /\ geometry.pc = "input"

\* part_000:83-93  the scale and the final position of startAnimation
ComputeFinalPositions ==
    /\ Transforming("ra")
    /\ LET finalPositions == FinalPositions(PropsOf(geometry))
       IN  geometry' = [geometry EXCEPT !.pc = "done",
                                        !.scale = Scale(PropsOf(geometry)),
                                        !.left = <<finalPositions[1].left, 1>>,
                                        !.top = <<finalPositions[1].top, 1>>]
    /\ UNCHANGED <<config, browseVars, browserVars, runs, appVars, raVars, zipVars,
                   scatterLoop, shuffleCall>>

\* part_002:1525-1561  the render of one piece of the overlay
RenderOverlay ==
    /\ Transforming("overlay")
    /\ LET style == OverlayStyle(PlacementOf(geometry), geometry.point.left, geometry.point.top)
       IN  geometry' = [geometry EXCEPT !.pc = "done", !.scale = style.scale,
                                        !.left = style.left, !.top = style.top,
                                        !.cornerLeft = style.cornerLeft,
                                        !.cornerTop = style.cornerTop]
    /\ UNCHANGED <<config, browseVars, browserVars, runs, appVars, raVars, zipVars,
                   scatterLoop, shuffleCall>>

\* ScatteredPieces.tsx:63-71  the rebuild branch of the effect
RebuildPositions ==
    /\ Transforming("sp")
    /\ geometry' = [geometry EXCEPT
                       !.pc = "done",
                       !.left = RebuiltCoordinate(geometry.point.left, geometry.src.width,
                                                  containerWidth),
                       !.top = RebuiltCoordinate(geometry.point.top, geometry.src.height,
                                                 containerHeightSP)]
    /\ UNCHANGED <<config, browseVars, browserVars, runs, appVars, raVars, zipVars,
                   scatterLoop, shuffleCall>>

TransformInit ==
    /\ config = "transform"
    /\ AppAtMount
    /\ NothingRuns
    /\ placementData = NoData
    /\ positions = <<>>
    /\ scatterLoop = NoData
    /\ shuffleCall = NoData
    /\ geometry \in {[component |-> c, pc |-> "input", src |-> [width |-> w, height |-> h],
                      point |-> pt, scale |-> <<>>, left |-> <<>>, top |-> <<>>,
                      cornerLeft |-> <<>>, cornerTop |-> <<>>] :
                        c \in {"ra", "overlay", "sp"}, w \in SourceWidths,
                        h \in SourceHeights, pt \in SourcePoints}

TransformNext == ComputeFinalPositions \/ RenderOverlay \/ RebuildPositions

TransformSpec == TransformInit /\ [][TransformNext]_vars

\* the least of dest/src per axis and 1
MinOfRatios(w, h) ==
    LET ratios == {<<1, 1>>, <<containerWidth, w>>, <<containerHeight, h>>}
    IN  CHOOSE s \in ratios : \A t \in ratios : FracLeq(s, t)

PositiveSource == geometry.src.width > 0 /\ geometry.src.height > 0

\* C14: for every positive source size the scale of startAnimation and of the
\* overlay is min(800 / srcWidth, 600 / srcHeight, 1): greater than 0, at most 1.
C14_ScaleNeverEnlarges ==
    (config = "transform" /\ geometry.component \in {"ra", "overlay"}
        /\ geometry.pc = "done" /\ PositiveSource)
        => /\ FracEq(geometry.scale, MinOfRatios(geometry.src.width, geometry.src.height))
           /\ geometry.scale[1] > 0 /\ geometry.scale[2] > 0
           /\ geometry.scale[1] <= geometry.scale[2]

\* the overlay was rendered for a canvas of 400 x 1200: narrower than the
\* viewport and twice as high, so the scale is 600 / 1200
C14_Witness ==
    /\ config = "transform"
    /\ geometry.component = "overlay"
    /\ geometry.pc = "done"
    /\ geometry.src = [width |-> 400, height |-> 1200]
    /\ FracEq(geometry.scale, <<1, 2>>)

\* srcPoint * s + (destSize - srcSize * s) / 2
Centred(srcPoint, s, destSize, srcSize) ==
    <<2 * srcPoint * s[1] + destSize * s[2] - srcSize * s[1], 2 * s[2]>>

\* the value is the fraction e, or e in whole pixels
Places(value, e) == FracEq(value, e) \/ (value[2] = 1 /\ value[1] = e[1] \div e[2])

\* the transform of the component put the point where the claim says; for the
\* overlay either the styled left / top or the corner of the translated image
PlacedAsCentred(left, top) ==
    LET s == MinOfRatios(geometry.src.width, geometry.src.height)
    IN  /\ Places(left, Centred(geometry.point.left, s, containerWidth, geometry.src.width))
        /\ Places(top, Centred(geometry.point.top, s, containerHeight, geometry.src.height))

\* C15 (as claimed): both transforms place a source point at
\* srcPoint * s + (destSize - srcSize * s) / 2 on each axis.
C15_BothTransformsCentre ==
    (config = "transform" /\ geometry.pc = "done" /\ PositiveSource)
        => /\ geometry.component = "ra" => PlacedAsCentred(geometry.left, geometry.top)
           /\ geometry.component = "overlay" =>
                 \/ PlacedAsCentred(geometry.left, geometry.top)
                 \/ PlacedAsCentred(geometry.cornerLeft, geometry.cornerTop)

\* the part of C15 about ReconstructionAnimation alone
RATransformCentres ==
    (config = "transform" /\ geometry.pc = "done" /\ PositiveSource
        /\ geometry.component = "ra") => PlacedAsCentred(geometry.left, geometry.top)

\* C16 (as claimed): a transform given a zero source width or height reports
\* InvalidGeometry and produces no position.
C16_ZeroSizeIsInvalidGeometry ==
    (config = "transform" /\ geometry.pc = "done" /\ ~PositiveSource)
        => /\ error = "InvalidGeometry"
           /\ geometry.left = <<>> /\ geometry.top = <<>>

-----------------------------------------------------------------------------
(* shuffleArray and the local handleShuffle of frontend/src/App.tsx         *)

\* the longest piece list of a shuffle
MaxLen == 3

\* piece lists of up to MaxLen entries, with and without repeated entries
Arrays == UNION {[1..n -> 1..MaxLen] : n \in 0..MaxLen}

\* the choices exclude the index itself
RandomIndexBelow(i) == 0..(i - 1)

\* App.tsx:9  Math.floor(Math.random() * (i + 1))
RandomIndex(i) == 0..i

\* the sequences of j the loop can draw on an array of n entries: js[i] is the j
\* drawn at index i, for i = n - 1 down to 1
ChoiceSequences(n) ==
    {js \in [1..(n - 1) -> 0..(n - 1)] : \A i \in 1..(n - 1) : js[i] \in RandomIndex(i)}

\* arr[i] takes arr[j] and arr[j] keeps its value
SwapOverwrite(arr, i, j) == [arr EXCEPT ![i + 1] = arr[j + 1]]

\* App.tsx:10  [arr[i], arr[j]] = [arr[j], arr[i]], on indices from 0
Swap(arr, i, j) == [arr EXCEPT ![i + 1] = arr[j + 1], ![j + 1] = arr[i + 1]]

\* App.tsx:8-11  the loop from index i down to 1
RECURSIVE ShuffleFrom(_, _, _)
ShuffleFrom(arr, i, js) ==
    IF i > 0 THEN ShuffleFrom(Swap(arr, i, js[i]), i - 1, js) ELSE arr

\* the loop runs on the array it was given
ShuffleInPlace(array, js) ==
    [array |-> ShuffleFrom(array, Len(array) - 1, js),
     arr |-> ShuffleFrom(array, Len(array) - 1, js)]

\* App.tsx:6-13  shuffleArray: arr is what it returns, array is what the caller's
\* array holds after the call
ShuffleArray(array, js) ==
    [array |-> array, arr |-> ShuffleFrom(array, Len(array) - 1, js)]

\* App.tsx:359-362  handleShuffle.  Until the first shuffle pieces and
\* shuffledPieces are one array object (App.tsx: setPieces(data.pieces);
\* setShuffledPieces(data.pieces)), so what the call leaves in its argument is
\* what pieces holds afterwards.
HandleShuffleLocal ==
    /\ config = "shuffle"
    /\ \E js \in ChoiceSequences(Len(shuffledPieces)) :
          LET call == ShuffleArray(shuffledPieces, js)
          IN  /\ shuffledPieces' = call.arr
              /\ pieces' = IF shuffleCall.shared THEN call.array ELSE pieces
              /\ shuffleCall' = [shared |-> FALSE, calls |-> Min(shuffleCall.calls + 1, 2),
                                 before |-> shuffledPieces, after |-> call.array, js |-> js]
    /\ rebuiltUrl' = Null
    /\ UNCHANGED <<config, browseVars, browserVars, runs, uploadedFile, shattered, loading,
                   error, animVars,
                   animationIdRef, pendingVars, raVars, zipVars, scatterLoop, geometry>>

ShuffleInit ==
    /\ config = "shuffle"
    /\ NothingRuns
    /\ positions = <<>>
    /\ placementData = NoData
    /\ pieces \in Arrays
    /\ shuffledPieces = pieces
    /\ uploadedFile = TRUE
    /\ shattered = TRUE
    /\ rebuiltUrl \in {Null, "rebuilt.png"}
    /\ loading = FALSE
    /\ error = Null
    /\ isAnimating = FALSE
    /\ scatteredPieces = <<>>
    /\ animationPhase = "scattered"
    /\ animationRef = <<>>
    /\ animationIdRef = 0
    /\ currentPlacementDataRef = NoData
    /\ shatterReqs = 0
    /\ rebuildReqs = <<>>
    /\ startTimers = <<>>
    /\ uploadedZipFile = FALSE
    /\ zipReqs = 0
    /\ currentPieceIndex = 0
    /\ shuffleReqs = 0
    /\ chosenPieceCount = pieceCount
    /\ countReqs = <<>>
    /\ scatterLoop = NoData
    /\ geometry = NoData
    /\ shuffleCall = [shared |-> TRUE, calls |-> 0, before |-> <<>>, after |-> <<>>,
                      js |-> <<>>]

ShuffleNext == HandleShuffleLocal

ShuffleSpec == ShuffleInit /\ [][ShuffleNext]_vars

\* how often x occurs in the list
Count(list, x) == Cardinality({k \in DOMAIN list : list[k] = x})

SameMultiset(a, b) == Len(a) = Len(b) /\ \A x \in 1..MaxLen : Count(a, x) = Count(b, x)

\* C17: shuffleArray returns a list of the same length and the same multiset of
\* elements as its input and leaves the input as it was; so after any number of
\* shuffles shuffledPieces is a rearrangement of pieces, and pieces is untouched.
C17_ShuffleKeepsElements ==
    (config = "shuffle" /\ shuffleCall.calls > 0) =>
        /\ Len(shuffledPieces) = Len(shuffleCall.before)
        /\ SameMultiset(shuffledPieces, shuffleCall.before)
        /\ shuffleCall.after = shuffleCall.before
        /\ SameMultiset(shuffledPieces, pieces)

\* a second shuffle of a list with a repeated entry returned another order
C17_Witness ==
    /\ config = "shuffle"
    /\ shuffleCall.calls = 2
    /\ pieces = <<1, 1, 2>>
    /\ shuffleCall.before = <<1, 2, 1>>
    /\ shuffledPieces = <<2, 1, 1>>

Distinct(list) == \A a, b \in DOMAIN list : a # b => list[a] # list[b]

\* the orders of the entries of the list
PermutationsOf(list) == {perm \in [DOMAIN list -> 1..MaxLen] : SameMultiset(perm, list)}

\* C18: on a list of N distinct elements shuffleArray can return every one of the
\* N! orders, and each order comes from exactly one sequence of choices
\* j in 0..i for i = N - 1 down to 1.
C18_EveryOrderByOneChoice ==
    (config = "shuffle" /\ shuffleCall.calls > 0 /\ Distinct(shuffleCall.before)) =>
        \A perm \in PermutationsOf(shuffleCall.before) :
            Cardinality({js \in ChoiceSequences(Len(shuffleCall.before)) :
                            ShuffleArray(shuffleCall.before, js).arr = perm}) = 1

\* a list of three distinct pieces was reversed by the choices j = 0 at i = 2 and
\* j = 1 at i = 1
C18_Witness ==
    /\ config = "shuffle"
    /\ shuffleCall.calls = 1
    /\ shuffleCall.before = <<1, 2, 3>>
    /\ shuffleCall.js = <<1, 0>>
    /\ shuffledPieces = <<3, 2, 1>>

-----------------------------------------------------------------------------
(* Loading the pieces: handleShatter and handleLoadZipPieces of App         *)
(* (part_002), handleUpload of the earlier App (part_001, config "v1")      *)

\* part_002:557-564
HandleZipUpload ==
    /\ Idle
    /\ uploadedZipFile' = TRUE
    /\ uploadedFile' = FALSE
    /\ ResetState
    /\ MarkCancelled
    /\ UNCHANGED <<config, shuffleReqs, chosenPieceCount, countReqs, zipReqs, calcVars,
                   browserVars, pieces, animationIdRef,
                   pendingVars, raVars>>

\* part_002:624-638  handleLoadZipPieces up to the fetch; the button is disabled
\* while loading
HandleLoadZipPieces ==
    /\ Idle
    /\ ~loading
    /\ IF ~uploadedZipFile
       THEN /\ error' = "Please upload a zip file first"
            /\ UNCHANGED <<loading, rebuiltUrl, zipReqs>>
       ELSE /\ InflightCount + zipReqs < MaxInflight
            /\ loading' = TRUE
            /\ error' = Null
            /\ rebuiltUrl' = Null
            /\ zipReqs' = zipReqs + 1
    /\ UNCHANGED <<config, browseVars, uploadedZipFile, calcVars, browserVars, runs, fileVars,
                   animVars,
                   animationIdRef, pendingVars, raVars>>

\* part_002:643-659  handleLoadZipPieces after the fetch
ZipResponse(resp) ==
    /\ Idle
    /\ zipReqs > 0
    /\ zipReqs' = zipReqs - 1
    /\ CASE resp = "full" ->
              /\ pieces' = PieceList(pieceCount)
              /\ shuffledPieces' = PieceList(pieceCount)
              /\ shattered' = TRUE
              /\ UNCHANGED error
         [] resp = "short" ->
              /\ error' = "Expected 50 pieces"
              /\ UNCHANGED <<pieces, shuffledPieces, shattered>>
         [] resp = "error" ->
              /\ error' = "Failed to load pieces from zip"
              /\ UNCHANGED <<pieces, shuffledPieces, shattered>>
         [] resp = "throw" ->
              /\ error' = "Failed to connect to backend"
              /\ UNCHANGED <<pieces, shuffledPieces, shattered>>
    /\ loading' = FALSE
    /\ UNCHANGED <<config, browseVars, uploadedZipFile, calcVars, browserVars, runs, uploadedFile,
                   rebuiltUrl, animVars, animationIdRef, pendingVars, raVars>>

\* part_001:25-37  handleUpload up to the fetch: the file input is never disabled
HandleUpload ==
    /\ config = "v1"
    /\ shatterReqs < MaxInflight
    /\ loading' = TRUE
    /\ error' = Null
    /\ rebuiltUrl' = Null
    /\ pieces' = <<>>
    /\ shuffledPieces' = <<>>
    /\ shatterReqs' = shatterReqs + 1
    /\ UNCHANGED <<config, browseVars, zipVars, calcVars, browserVars, runs, uploadedFile,
                   shattered,
                   animVars, animationIdRef, rebuildReqs, startTimers, raVars>>

\* part_001:38-54  handleUpload after the fetch
UploadResponse(resp) ==
    /\ config = "v1"
    /\ shatterReqs > 0
    /\ shatterReqs' = shatterReqs - 1
    /\ CASE resp = "full" ->
              /\ pieces' = PieceList(pieceCount)
              /\ shuffledPieces' = PieceList(pieceCount)
              /\ UNCHANGED error
         [] resp = "short" ->
              /\ error' = "Expected 50 pieces"
              /\ UNCHANGED <<pieces, shuffledPieces>>
         [] resp = "error" ->
              /\ error' = "Failed to shatter image"
              /\ UNCHANGED <<pieces, shuffledPieces>>
         [] resp = "throw" ->
              /\ error' = "Failed to connect to backend"
              /\ UNCHANGED <<pieces, shuffledPieces>>
    /\ loading' = FALSE
    /\ UNCHANGED <<config, browseVars, zipVars, calcVars, browserVars, runs, uploadedFile,
                   shattered,
                   rebuiltUrl, animVars, animationIdRef, rebuildReqs, startTimers, raVars>>

LoadInit ==
    /\ config \in {"app", "v1"}
    /\ AppAtMount
    /\ NothingRuns
    /\ placementData = NoData
    /\ positions = <<>>
    /\ scatterLoop = NoData
    /\ geometry = NoData
    /\ shuffleCall = NoData

LoadNext ==
    \/ HandleImageUpload
    \/ HandleZipUpload
    \/ HandleShatter
    \/ \E resp \in ShatterResponses : ShatterResponse(resp)
    \/ HandleLoadZipPieces
    \/ \E resp \in ShatterResponses : ZipResponse(resp)
    \/ HandleReset
    \/ HandleUpload
    \/ \E resp \in ShatterResponses : UploadResponse(resp)

LoadSpec == LoadInit /\ [][LoadNext]_vars

\* a step that sends a shatter or load-from-zip request
Requested == shatterReqs' > shatterReqs \/ zipReqs' > zipReqs

\* a step that handles a response whose piece count differs from the requested one
Mismatched ==
    ShatterResponse("short") \/ ZipResponse("short") \/ UploadResponse("short")

KeepsPieceSet == UNCHANGED <<pieces, shuffledPieces, shattered>>

\* C19 (as claimed): a response with another number of pieces than requested sets
\* an error and stores nothing, and pieces, shuffledPieces and shattered are what
\* they were before the request: neither the step that sends the request nor the
\* step that handles the response changes them.
C19_MismatchKeepsPieceSet ==
    [][/\ Requested => KeepsPieceSet
       /\ Mismatched => (error' # Null /\ KeepsPieceSet)]_vars

\* the part of C19 about handleShatter and handleLoadZipPieces of part_002
MismatchKeepsPieceSetApp ==
    [][config = "app" =>
         /\ Requested => KeepsPieceSet
         /\ Mismatched => (error' # Null /\ KeepsPieceSet)]_vars

\* part_002: a piece set was loaded, and a later request got a mismatched response
MismatchAfterLoadApp ==
    /\ config = "app"
    /\ pieces = PieceList(pieceCount) /\ shuffledPieces = pieces /\ shattered
    /\ error = "Expected 50 pieces"

-----------------------------------------------------------------------------
(* Incomplete placement data                                                *)

\* part_002:697  the order of a rebuild request names every entry of
\* shuffledPieces, which has pieceCount entries whenever the button is shown; a
\* step that handles a response whose placement data has fewer entries
IncompleteResponse ==
    \E i \in DOMAIN rebuildReqs, resp \in RebuildResponses :
        /\ resp.kind = "rebuilt"
        /\ resp.placement_data \in PlacementSet
        /\ Len(resp.placement_data.pieces) < pieceCount
        /\ RebuildResponse(i, resp)

\* C20 (as claimed): a rebuild response whose placement data has fewer entries
\* than the identifiers submitted surfaces an error and starts nothing: the
\* error is set, the data is not taken over and no start is scheduled.
C20_IncompletePlacementIsError ==
    [][(config = "app" /\ IncompleteResponse)
          => (error' # Null /\ UNCHANGED <<placementData, startTimers>>)]_vars

\* a run animates placement data with fewer entries than pieceCount while no
\* error is shown
IncompletePlacementAnimated ==
    /\ config = "app"
    /\ error = Null
    /\ \E r \in DOMAIN runs :
          /\ ~runs[r].done /\ ~runs[r].cancelled
          /\ runs[r].pd \in PlacementSet
          /\ Len(runs[r].pd.pieces) < pieceCount

-----------------------------------------------------------------------------
(* The display order: the server shuffle of App and the order of a rebuild  *)

\* the orders /load_pieces can return: the files of the pieces folder in the
\* order the service keeps, here as listed and reversed
ServerOrders ==
    {PieceList(pieceCount), [k \in 1..pieceCount |-> PieceUrl(pieceCount + 1 - k)]}

\* the outcomes of the two fetches of handleShuffle: a body with pieces, a body
\* without (the { error } body the other handlers read), a fetch or json() that throws
ShuffleResponses ==
    {[kind |-> "pieces", pieces |-> order] : order \in ServerOrders}
        \cup {[kind |-> "nopieces", pieces |-> <<>>], [kind |-> "throw", pieces |-> <<>>]}

\* data.pieces of a body without pieces: undefined, which is no list of references
Undefined == <<<<-1>>>>

\* part_002:662-668  handleShuffle up to its fetches; the button is part of the
\* piece browser (part_002:1146, 1173) and is never disabled
HandleShuffle ==
    /\ Idle
    /\ shattered /\ shuffledPieces # <<>>
    /\ shuffleReqs < MaxInflight
    /\ shuffleReqs' = shuffleReqs + 1
    /\ UNCHANGED <<config, currentPieceIndex, chosenPieceCount, countReqs, zipVars, calcVars,
                   browserVars, runs, appVars, raVars>>

\* part_002:669-674  handleShuffle after the fetches.  setShuffledPieces(undefined)
\* makes the next render throw at shuffledPieces.length (part_002:876): the
\* component is unmounted, no handler runs any more.
ShuffleResponse(resp) ==
    /\ Idle
    /\ shuffleReqs > 0
    /\ shuffleReqs' = shuffleReqs - 1
    /\ CASE resp.kind = "pieces" ->
              /\ shuffledPieces' = resp.pieces
              /\ rebuiltUrl' = Null
              /\ UNCHANGED config
         [] resp.kind = "nopieces" ->
              /\ shuffledPieces' = Undefined
              /\ rebuiltUrl' = Null
              /\ config' = "crashed"
         [] resp.kind = "throw" ->
              UNCHANGED <<config, shuffledPieces, rebuiltUrl>>
    /\ UNCHANGED <<currentPieceIndex, chosenPieceCount, countReqs, zipVars, calcVars,
                   browserVars, runs, uploadedFile, pieces, shattered, loading, error,
                   animVars, animationIdRef, pendingVars, raVars>>

OrderInit == Init /\ config = "app"

OrderNext ==
    \/ HandleShuffle
    \/ \E resp \in ShuffleResponses : ShuffleResponse(resp)
    \/ HandleRebuild
    \/ \E i \in 1..MaxInflight, resp \in RebuildResponses : RebuildResponse(i, resp)
    \/ \E i \in 1..MaxInflight : DelayedStart(i)
    \/ HandleShatter
    \/ \E resp \in ShatterResponses : ShatterResponse(resp)
    \/ HandleLoadZipPieces
    \/ \E resp \in ShatterResponses : ZipResponse(resp)
    \/ HandleImageUpload
    \/ HandleZipUpload
    \/ HandleReset

OrderSpec == OrderInit /\ [][OrderNext]_vars

\* a step that handles a shuffle response with pieces; one that handles a failure
ShuffleSucceeded(resp) == resp.kind = "pieces" /\ ShuffleResponse(resp)
ShuffleFailed(resp) == resp.kind # "pieces" /\ ShuffleResponse(resp)

\* a step that sends a rebuild request
RebuildRequested == Len(rebuildReqs') = Len(rebuildReqs) + 1

\* C21 (as claimed): after a successful server shuffle shuffledPieces is the
\* order the server returned, a rebuild request sends the identifiers of the
\* display order in its sequence, and a failed shuffle leaves the order as it was.
C21_ServerOrderIsAuthoritative ==
    [][/\ \A resp \in ShuffleResponses :
            /\ ShuffleSucceeded(resp) => shuffledPieces' = resp.pieces
            /\ ShuffleFailed(resp) => (config' = "app" /\ shuffledPieces' = shuffledPieces)
       /\ RebuildRequested =>
            rebuildReqs'[Len(rebuildReqs')].order = ToServiceOrder(shuffledPieces)]_vars

\* the part of C21 about a successful shuffle and the order of the next rebuild
ShuffledOrderIsSent ==
    [][/\ \A resp \in ShuffleResponses :
            ShuffleSucceeded(resp) => shuffledPieces' = resp.pieces
       /\ RebuildRequested =>
            rebuildReqs'[Len(rebuildReqs')].order = ToServiceOrder(shuffledPieces)]_vars

\* a rebuild request is in flight whose order is the reversed list the server
\* returned for a shuffle
ReversedOrderSent ==
    /\ config = "app"
    /\ rebuildReqs # <<>>
    /\ rebuildReqs[1].order = [k \in 1..pieceCount |-> <<pieceCount + 1 - k>>]

\* id is what follows the last slash of url
LastSegmentOf(url, id) ==
    /\ Len(id) < Len(url)
    /\ SubSeq(url, Len(url) - Len(id) + 1, Len(url)) = id
    /\ url[Len(url) - Len(id)] = Slash
    /\ \A k \in DOMAIN id : id[k] # Slash

----------------------------------------------------------------------------
(* The lists of a run *)

\* a run that animates: its callback is requested, it has not completed, it was
\* not dismissed and (in App) not superseded
ActiveRun(r) ==
    /\ InFlight(r)
    /\ ~runs[r].cancelled
    /\ runs[r].id = animationIdRef

\* C23: while a run is active the number of pieces, the number of scattered
\* (starting) positions of the run and the number of its final (target)
\* positions are equal.
C23_CountsAgree ==
    \A r \in DOMAIN runs :
        ActiveRun(r) =>
            IF config = "ra"
            THEN /\ Len(runs[r].positions) = Len(props.pieces)
                 /\ Len(runs[r].finalPositions) = Len(props.pieces)
            ELSE /\ Len(runs[r].scattered) = Len(runs[r].pd.pieces)
                 /\ Len(scatteredPieces) = Len(runs[r].pd.pieces)

\* the same for App alone, where the starting list is mapped from the placement
\* entries that also carry the targets
CountsAgreeApp == config = "app" => C23_CountsAgree

\* a run of ReconstructionAnimation started between resetAnimation and its timer
StartedOnEmptyPositions ==
    \E r \in DOMAIN runs :
        /\ config = "ra" /\ ActiveRun(r)
        /\ runs[r].positions = <<>> /\ runs[r].finalPositions # <<>>


----------------------------------------------------------------------------
(* What the scatter loop accepts *)

\* the two positions are at least size + padding apart on the x or on the y axis
SeparatedFrom(pos, position, c) ==
    \/ Abs(pos.left - position.left) >= c.pieceSizeScattered + padding
    \/ Abs(pos.top - position.top) >= c.pieceSizeScattered + padding

\* the sample is separated from every position placed so far
PassesTest(loop) ==
    \A k \in 1..Len(loop.scatteredPositions) :
        SeparatedFrom(loop.scatteredPositions[k], loop.position, Components[loop.component])

\* this step accepts a position
Accepted == Len(scatterLoop'.scatteredPositions) = Len(scatterLoop.scatteredPositions) + 1

\* C24: every position the scatter loop accepts is the sample drawn last, and it
\* either is separated from every position placed before it by at least
\* size + padding on the x or on the y axis, or is the maxAttempts-th sample of
\* its piece; and a sample that passes the separation test is accepted by the
\* next statement, with no further sample drawn for the piece.
C24_FirstPassingSampleAccepted ==
    [][Looping =>
         /\ Accepted =>
              /\ scatterLoop'.scatteredPositions =
                    Append(scatterLoop.scatteredPositions, scatterLoop.position)
              /\ PassesTest(scatterLoop) \/ scatterLoop.attempts = maxAttempts
         /\ (scatterLoop.pc = "while" /\ PassesTest(scatterLoop)) => Accepted]_vars

\* the second piece of ReconstructionAnimation was accepted with its first
\* sample, which is apart from the first piece on the x axis only
C24_Witness ==
    /\ config = "scatter"
    /\ scatterLoop.component = "ra"
    /\ scatterLoop.pc = "for"
    /\ scatterLoop.i = 2
    /\ scatterLoop.attempts = 1
    /\ Abs(scatterLoop.scatteredPositions[1].top - scatterLoop.scatteredPositions[2].top)
          < pieceSizeScattered + padding
    /\ Abs(scatterLoop.scatteredPositions[1].left - scatterLoop.scatteredPositions[2].left)
          >= pieceSizeScattered + padding


----------------------------------------------------------------------------
(* Where the pieces of App end *)

\* the final_position of a placement entry, in the units of current_position
TargetOf(piece) == <<piece.final_position[1] * Unit, piece.final_position[2] * Unit>>

\* C25: in App every piece moves from its scattered position toward the
\* final_position its placement entry gives, so that the frame that completes a
\* run commits every piece at its own final_position.
C25_PiecesReachFinalPosition ==
    [][\A r \in DOMAIN runs :
          (config = "app" /\ Delivered(r) /\ ~runs[r].done /\ runs'[r].done)
              => \A i \in DOMAIN scatteredPieces' :
                    scatteredPieces'[i].current_position = TargetOf(scatteredPieces'[i])]_vars

\* a run of App completed with a piece away from its final_position
CompletedAwayFromTarget ==
    /\ config = "app"
    /\ animationPhase = "complete"
    /\ \E i \in DOMAIN scatteredPieces :
          /\ scatteredPieces[i].current_position = <<0, 0>>
          /\ scatteredPieces[i].final_position # <<0, 0>>


----------------------------------------------------------------------------
(* ReconstructionAnimation after a run *)

\* the last run completed and shows its final positions, with no reset pending
ShowsFinalPositions ==
    /\ config = "ra"
    /\ runs # <<>> /\ runs[Len(runs)].done
    /\ positions = FinalPositions(props)
    /\ resetTimers = <<>>

\* this step is neither startAnimation starting a run nor resetAnimation
NoStartNoReset == Len(runs') = Len(runs) /\ resetTimers' = resetTimers

\* C26: once a run of ReconstructionAnimation has completed, the displayed
\* positions stay the final positions until start or reset is invoked; the
\* completion does not scatter the pieces again.
C26_CompletedStaysAssembled ==
    [][(ShowsFinalPositions /\ NoStartNoReset) => positions' = positions]_vars


\* no timer of resetAnimation, no frame and no effect is pending
QuiescentRA ==
    /\ config = "ra"
    /\ resetTimers = <<>>
    /\ Pending = {}
    /\ ~effectPending

\* C27: in ReconstructionAnimation, after any resetAnimation and startAnimation
\* invocations, once every pending timer, frame and effect has run there is one
\* stored position per piece; the list is not left empty.
C27_SettlesWithOnePositionPerPiece ==
    QuiescentRA => Len(positions) = Len(props.pieces)


----------------------------------------------------------------------------
(* The delayed start after a reset *)

\* the model was cleared (handleReset, resetState of a zip upload, or a new
\* image) after the rebuild response that armed the timer: the response had set
\* rebuiltUrl, and nothing was shattered or rebuilt since
ClearedSinceResponse ==
    /\ config = "app"
    /\ startTimers # <<>>
    /\ ~shattered
    /\ rebuiltUrl = Null

\* this step is a timer of handleRebuild firing
TimerFires == Len(startTimers') < Len(startTimers)

\* C28: when the model was cleared between a successful rebuild response and
\* its delayed start, the timer starts no run: isAnimating stays false, the
\* generation counter is unchanged and no frame is requested.
C28_ClearedStartIsNoOp ==
    [][(ClearedSinceResponse /\ TimerFires)
          => /\ ~isAnimating'
             /\ UNCHANGED <<animationIdRef, rafCallbacks>>]_vars

\* a run animates placement data although the model holds none
RunsWithoutModel ==
    /\ config = "app"
    /\ ~shattered /\ placementData = NoData /\ rebuiltUrl = Null
    /\ isAnimating /\ scatteredPieces # <<>>


----------------------------------------------------------------------------
(* Responses that arrive after the model was cleared *)

\* this step delivers the response of a request that was sent before the model
\* was last cleared: the file of a shatter or load request is gone, or the piece
\* browser a shuffle or rebuild was clicked in is
StaleShatterResponse == shatterReqs' < shatterReqs /\ ~uploadedFile
StaleZipResponse == zipReqs' < zipReqs /\ ~uploadedZipFile
StaleShuffleResponse == shuffleReqs' < shuffleReqs /\ ~shattered
StaleRebuildResponse == Len(rebuildReqs') < Len(rebuildReqs) /\ ~shattered

ModelUnchanged == UNCHANGED <<pieces, shuffledPieces, shattered, rebuiltUrl, placementData>>

\* C29: a shatter, load-from-zip, shuffle or rebuild response that arrives after
\* a reset or an upload made later than its request writes nothing into the
\* model: pieces, shuffledPieces, shattered, rebuiltUrl and placementData keep
\* the values the reset gave them.
C29_StaleResponseWritesNothing ==
    [][(config = "app" /\ (\/ StaleShatterResponse
                           \/ StaleZipResponse
                           \/ StaleShuffleResponse
                           \/ StaleRebuildResponse))
          => ModelUnchanged]_vars

\* the piece browser is back, filled by a response, although no file is chosen
BrowserWithoutFile ==
    /\ config = "app"
    /\ shattered /\ shuffledPieces # <<>>
    /\ ~uploadedFile /\ ~uploadedZipFile


----------------------------------------------------------------------------
(* The piece browser: nextPiece and prevPiece of App (part_002) and of       *)
(* frontend/src/App.tsx (config "frontend"), whose pieceCount is state       *)

\* the counts typed into the "Number of pieces" input of frontend/src/App.tsx
PieceCounts == {2, 3}

\* the value of x % 0
NotANumber == -1

\* part_002:851  (prev + 1) % shuffledPieces.length
NextIndex(prev, length) == IF length = 0 THEN NotANumber ELSE (prev + 1) % length

\* part_002:855  (prev - 1 + shuffledPieces.length) % shuffledPieces.length
PrevIndex(prev, length) == IF length = 0 THEN NotANumber ELSE (prev - 1 + length) % length

Browsing == config \in {"app", "frontend"} /\ rafQueue = {}

\* part_002:850-852 and App.tsx:420-422  the button of the piece browser, or the
\* ArrowRight / space key, which is handled while shattered (part_002:860)
NextPiece ==
    /\ Browsing
    /\ shattered
    /\ currentPieceIndex' = NextIndex(currentPieceIndex, Len(shuffledPieces))
    /\ UNCHANGED <<config, shuffleReqs, chosenPieceCount, countReqs, zipVars, calcVars,
                   browserVars, runs, appVars, raVars>>

\* part_002:854-856 and App.tsx:424-426
PrevPiece ==
    /\ Browsing
    /\ shattered
    /\ currentPieceIndex' = PrevIndex(currentPieceIndex, Len(shuffledPieces))
    /\ UNCHANGED <<config, shuffleReqs, chosenPieceCount, countReqs, zipVars, calcVars,
                   browserVars, runs, appVars, raVars>>

\* what no handler of frontend/src/App.tsx touches
FrontendFrame ==
    UNCHANGED <<config, browserVars, runs, animVars, animationIdRef, pendingVars, raVars,
                zipReqs, calcVars, shuffleReqs>>

\* App.tsx:560  setPieceCount(parseInt(e.target.value) || 50)
SetPieceCount(n) ==
    /\ config = "frontend"
    /\ chosenPieceCount' = n
    /\ UNCHANGED <<fileVars, statusVars, uploadedZipFile, currentPieceIndex, countReqs>>
    /\ FrontendFrame

\* App.tsx:268-280  resetState
ResetStateFrontend ==
    /\ pieces' = <<>>
    /\ shuffledPieces' = <<>>
    /\ shattered' = FALSE
    /\ rebuiltUrl' = Null
    /\ error' = Null
    /\ currentPieceIndex' = 0

\* App.tsx:250-257  handleImageUpload
HandleImageUploadFrontend ==
    /\ config = "frontend"
    /\ uploadedFile' = TRUE
    /\ uploadedZipFile' = FALSE
    /\ ResetStateFrontend
    /\ UNCHANGED <<loading, chosenPieceCount, countReqs>>
    /\ FrontendFrame

\* App.tsx:393-398  handleReset; the button is part of the piece browser (App.tsx:705)
HandleResetFrontend ==
    /\ config = "frontend"
    /\ shattered /\ shuffledPieces # <<>>
    /\ ResetStateFrontend
    /\ uploadedFile' = FALSE
    /\ uploadedZipFile' = FALSE
    /\ UNCHANGED <<loading, chosenPieceCount, countReqs>>
    /\ FrontendFrame

\* App.tsx:283-299  handleShatter up to the fetch, which carries the pieceCount
\* of the render in which the button was clicked; the button is disabled while
\* loading (App.tsx:588)
HandleShatterFrontend ==
    /\ config = "frontend"
    /\ ~loading
    /\ IF ~uploadedFile
       THEN /\ error' = "Please upload an image first"
            /\ UNCHANGED <<loading, rebuiltUrl, countReqs>>
       ELSE /\ Len(countReqs) < MaxInflight
            /\ loading' = TRUE
            /\ error' = Null
            /\ rebuiltUrl' = Null
            /\ countReqs' = Append(countReqs, chosenPieceCount)
    /\ UNCHANGED <<fileVars, uploadedZipFile, currentPieceIndex, chosenPieceCount>>
    /\ FrontendFrame

\* App.tsx:300-317  handleShatter after the fetch: "full" is a body with as many
\* pieces as were asked for, "short" one with another number of pieces
ShatterResponseFrontend(resp) ==
    /\ config = "frontend"
    /\ countReqs # <<>>
    /\ countReqs' = Tail(countReqs)
    /\ CASE resp = "full" ->
              /\ pieces' = PieceList(Head(countReqs))
              /\ shuffledPieces' = PieceList(Head(countReqs))
              /\ shattered' = TRUE
              /\ UNCHANGED error
         [] resp = "short" ->
              /\ error' = "Expected pieceCount pieces"
              /\ UNCHANGED <<pieces, shuffledPieces, shattered>>
         [] resp = "error" ->
              /\ error' = "Failed to shatter image"
              /\ UNCHANGED <<pieces, shuffledPieces, shattered>>
         [] resp = "throw" ->
              /\ error' = "Failed to connect to backend"
              /\ UNCHANGED <<pieces, shuffledPieces, shattered>>
    /\ loading' = FALSE
    /\ UNCHANGED <<uploadedFile, uploadedZipFile, rebuiltUrl, currentPieceIndex,
                   chosenPieceCount>>
    /\ FrontendFrame

\* App.tsx:359-362  handleShuffle: setShuffledPieces(shuffleArray(shuffledPieces))
HandleShuffleFrontend ==
    /\ config = "frontend"
    /\ shattered /\ shuffledPieces # <<>>
    /\ \E js \in ChoiceSequences(Len(shuffledPieces)) :
          shuffledPieces' = ShuffleArray(shuffledPieces, js).arr
    /\ rebuiltUrl' = Null
    /\ UNCHANGED <<uploadedFile, pieces, shattered, uploadedZipFile, loading, error,
                   currentPieceIndex, chosenPieceCount, countReqs>>
    /\ FrontendFrame

\* App (part_002) as in Init, or frontend/src/App.tsx with an image chosen and
\* a count typed in
BrowseInit ==
    /\ config \in {"app", "frontend"}
    /\ NothingRuns
    /\ positions = <<>>
    /\ uploadedFile = TRUE
    /\ pieces = IF config = "app" THEN PieceList(pieceCount) ELSE <<>>
    /\ shuffledPieces = pieces
    /\ shattered = (config = "app")
    /\ rebuiltUrl = Null
    /\ loading = FALSE
    /\ error = Null
    /\ placementData = NoData
    /\ isAnimating = FALSE
    /\ scatteredPieces = <<>>
    /\ animationPhase = "scattered"
    /\ animationRef = <<>>
    /\ animationIdRef = 0
    /\ currentPlacementDataRef = NoData
    /\ shatterReqs = 0
    /\ rebuildReqs = <<>>
    /\ startTimers = <<>>
    /\ uploadedZipFile = FALSE
    /\ zipReqs = 0
    /\ currentPieceIndex = 0
    /\ shuffleReqs = 0
    /\ chosenPieceCount \in IF config = "app" THEN {pieceCount} ELSE PieceCounts
    /\ countReqs = <<>>
    /\ scatterLoop = NoData
    /\ geometry = NoData
    /\ shuffleCall = NoData

BrowseNext ==
    \/ NextPiece
    \/ PrevPiece
    \/ HandleShuffle
    \/ \E resp \in ShuffleResponses : ShuffleResponse(resp)
    \/ HandleShatter
    \/ \E resp \in ShatterResponses : ShatterResponse(resp)
    \/ HandleLoadZipPieces
    \/ \E resp \in ShatterResponses : ZipResponse(resp)
    \/ HandleImageUpload
    \/ HandleZipUpload
    \/ HandleReset
    \/ \E n \in PieceCounts : SetPieceCount(n)
    \/ HandleImageUploadFrontend
    \/ HandleResetFrontend
    \/ HandleShatterFrontend
    \/ \E resp \in ShatterResponses : ShatterResponseFrontend(resp)
    \/ HandleShuffleFrontend

BrowseSpec == BrowseInit /\ [][BrowseNext]_vars

\* the piece browser is rendered
BrowserShown ==
    /\ config \in {"app", "frontend"}
    /\ shattered /\ shuffledPieces # <<>>

IndexInRange == currentPieceIndex \in 0..(Len(shuffledPieces) - 1)

\* C30: whenever the piece browser is shown (shattered, and shuffledPieces not
\* empty) currentPieceIndex is an index of shuffledPieces, whatever nextPiece,
\* prevPiece, shuffle, shatter, load and reset operations came before; and
\* nextPiece followed by prevPiece gives the index it started from.
C30_IndexInRange ==
    BrowserShown =>
        /\ IndexInRange
        /\ PrevIndex(NextIndex(currentPieceIndex, Len(shuffledPieces)), Len(shuffledPieces))
              = currentPieceIndex

\* the same of App (part_002) alone, whose pieceCount is the constant 50
IndexInRangeApp == config = "app" => C30_IndexInRange

\* the browser of frontend/src/App.tsx shows an index past its list
IndexPastTheList ==
    /\ config = "frontend"
    /\ shattered
    /\ Len(shuffledPieces) = 2
    /\ currentPieceIndex = 2

====
